---- MODULE Spec2Model ----
(***************************************************************************)
(* WhyCry (src/py3/whycry.py): a Vigenere-style additive cipher over a     *)
(* named alphabet, with a padding mode (wencode/wdecode) and a hash        *)
(* signature.  One WhyCry instance is modelled: its fields are the         *)
(* variables, every public method is one action.  Strings are sequences    *)
(* of one-character strings; buffers are sequences of 0-based alphabet     *)
(* indices, as in the source.                                              *)
(***************************************************************************)
EXTENDS Integers, Sequences, FiniteSets, TLC

\* ---------------------------------------------------------------- bounds
\* longest plaintext / key the caller passes, largest target length
MaxText == 2
MaxKey == 1
MaxLen == 5
\* number of encode/decode/wencode/wdecode calls made on the instance
MaxCalls == 2

\* ------------------------------------------------------------- alphabets
NUM == <<"0", "1", "2", "3", "4", "5", "6", "7", "8", "9">>

\* the registry, restricted to its smallest alphabet
DIZ == [num |-> NUM]

\* characters the caller builds texts and keys from; BadChar is in no
\* modelled alphabet
TextChars == {"5", "8"}
KeyChars == {"2", "5"}
BadChar == "x"

StrsUpTo(S, n) == UNION {[1..m -> S] : m \in 0..n}

\* the worked example of the documentation: key "137", text "582"
ExampleKey == <<"1", "3", "7">>
ExampleText == <<"5", "8", "2">>

\* every short text and key over those characters, and a few longer ones
Texts == StrsUpTo(TextChars, MaxText)
           \cup {<<"5", "5", "5">>, ExampleText, <<"5", BadChar>>}
Keys == StrsUpTo(KeyChars, MaxKey) \cup {<<"2", "5">>, ExampleKey}

\* ------------------------------------------------------------- variables
VARIABLES
  dictionary,   \* self.dictionary
  secretkey,    \* self.secretkey (indices)
  hasText,      \* whether the attribute self.text exists yet
  text,         \* self.text, the working buffer (indices)
  signature,    \* self.signature
  last,         \* the last encode/decode/wencode/wdecode call and its outcome
  src,          \* the call before it, when its returned string is last's argument
  vres,         \* the verify that closes the session: its argument and outcome
  ncalls        \* how many calls `last` counts

vars == <<dictionary, secretkey, hasText, text, signature, last, src, vres, ncalls>>

\* ------------------------------------------------------- private helpers
Reverse(s) == [i \in 1..Len(s) |-> s[Len(s) + 1 - i]]

\* str.index: 0-based position of the first occurrence
index(d, c) == (CHOOSE i \in 1..Len(d) : d[i] = c /\ \A j \in 1..(i - 1) : d[j] # c) - 1

InDictionary(d, string) == \A i \in 1..Len(string) : \E j \in 1..Len(d) : d[j] = string[i]

\* _build_input, for a string whose characters are all in the dictionary
build_input(d, string) == [i \in 1..Len(string) |-> index(d, string[i])]

\* s * r : the list s repeated r times
RECURSIVE repeat(_, _)
repeat(s, r) == IF r <= 0 THEN <<>> ELSE s \o repeat(s, r - 1)

\* _translate wrapping one step late: x <= d in place of x < d
translate_wrap_late(t, s, d, mode) ==
  LET r == (Len(t) \div Len(s)) + 1
      k == repeat(s, r)
  IN  IF mode
      THEN [i \in 1..Len(t) |-> LET x == t[i] + k[i] IN IF x <= d THEN x ELSE x - d]
      ELSE [i \in 1..Len(t) |-> LET x == t[i] - k[i] IN IF x > -1 THEN x ELSE x + d]

\* _translate that never advances in the key: s[0] for every position
translate_first_key(t, s, d, mode) ==
  IF mode
  THEN [i \in 1..Len(t) |-> LET x == t[i] + s[1] IN IF x < d THEN x ELSE x - d]
  ELSE [i \in 1..Len(t) |-> LET x == t[i] - s[1] IN IF x > -1 THEN x ELSE x + d]

\* _translate, for a non-empty key s (an empty one divides by zero)
translate(t, s, d, mode) ==
  LET r == (Len(t) \div Len(s)) + 1
      k == repeat(s, r)
  IN  IF mode
      THEN [i \in 1..Len(t) |-> LET x == t[i] + k[i] IN IF x < d THEN x ELSE x - d]
      ELSE [i \in 1..Len(t) |-> LET x == t[i] - k[i] IN IF x > -1 THEN x ELSE x + d]

\* disturbance draws without the `while c1 == c2` redraw
disturbance_unchecked(prev, n, d) == [1..n -> 0..(d - 2)]

\* the disturbance runs of n draws that _wide can append after the element
\* prev: each draw is int(random() * (d - 1)), redrawn while it equals the
\* buffer's last element
disturbance(prev, n, d) ==
  {r \in [1..n -> 0..(d - 2)] :
     \A i \in 1..n : r[i] # (IF i = 1 THEN prev ELSE r[i - 1])}

\* _wide(1, lenght) on a non-empty buffer t: every buffer it can leave
wide(t, lenght, d) ==
  LET m == <<t[1]>> \o t \o <<t[Len(t)]>>
      cadd == lenght - Len(m)
  IN  UNION {UNION {{Reverse(Reverse(m \o r1) \o r2) :
                       r2 \in disturbance(Reverse(m \o r1)[Len(m) + cside],
                                          cadd - cside, d)} :
                    r1 \in disturbance(m[Len(m)], cside, d)} :
             cside \in 0..(cadd - 1)}

\* the scan of _wide(0): first (1-based) x with t[x] = t[x+1], 0 when none
RECURSIVE first_pair(_, _)
first_pair(t, x) ==
  IF x >= Len(t) THEN 0
  ELSE IF t[x] = t[x + 1] THEN x
  ELSE first_pair(t, x + 1)

\* a pass slicing t[x + 2:], which drops both elements of the pair
unwide_pass_drops_pair(t) ==
  LET x == first_pair(t, 1)
  IN  IF x = 0 THEN [found |-> FALSE, t |-> <<>>]
      ELSE [found |-> TRUE, t |-> Reverse(SubSeq(t, x + 2, Len(t)))]

\* one iteration of the `for m in range(2)` loop of _wide(0)
unwide_pass(t) ==
  LET x == first_pair(t, 1)
  IN  IF x = 0 THEN [found |-> FALSE, t |-> <<>>]
      ELSE [found |-> TRUE, t |-> Reverse(SubSeq(t, x + 1, Len(t)))]

\* _wide(0) whose second pass, finding no pair, keeps the first pass's buffer
unwide_keeps_first_pass(t) ==
  LET p1 == unwide_pass(t)
      p2 == unwide_pass(p1.t)
  IN  IF p1.found THEN (IF p2.found THEN p2.t ELSE p1.t) ELSE <<>>

\* _wide(0): two passes, the empty buffer when either finds no pair
unwide(t) ==
  LET p1 == unwide_pass(t)
      p2 == unwide_pass(p1.t)
  IN  IF p1.found /\ p2.found THEN p2.t ELSE <<>>

\* _output: list indexing, which accepts -len..len-1
OutputOk(d, t) == \A i \in 1..Len(t) : t[i] >= -Len(d) /\ t[i] < Len(d)
output(d, t) ==
  [i \in 1..Len(t) |-> IF t[i] >= 0 THEN d[t[i] + 1] ELSE d[Len(d) + t[i] + 1]]

\* _sign: the digest as an injective function of the string
sign(s) == <<"sha512">> \o s

None == <<>>

\* ------------------------------------------------------- public methods
\* What one call leaves: the fields it wrote, the exception it raised
\* ("none" when it returned), the string it returned, and the buffer it
\* handed to _wide (inbuf) with the one _wide left after its first stage
\* (midbuf: the padded buffer for wencode, the first pass for wdecode).
Outcome(h, t, sg, e, r, ib, mb) ==
  [hasText |-> h, text |-> t, signature |-> sg, exc |-> e, ret |-> r,
   inbuf |-> ib, midbuf |-> mb]

\* encode signing the string it returns instead of the plaintext
encode_signs_output(string, mode, create_signature) ==
  IF ~InDictionary(dictionary, string)
  THEN Outcome(hasText, text, signature, "ValueError", <<>>, <<>>, <<>>)
  ELSE LET b == build_input(dictionary, string)
       IN  IF Len(secretkey) = 0
           THEN Outcome(TRUE, b, signature, "ZeroDivisionError", <<>>, <<>>, <<>>)
           ELSE LET t == translate(b, secretkey, Len(dictionary), mode)
                    sg == IF create_signature THEN sign(output(dictionary, t))
                          ELSE signature
                IN  IF ~OutputOk(dictionary, t)
                    THEN Outcome(TRUE, t, sg, "IndexError", <<>>, <<>>, <<>>)
                    ELSE Outcome(TRUE, t, sg, "none", output(dictionary, t), <<>>, <<>>)

\* encode clearing self.text before _build_input runs
encode_clears_buffer(string, mode, create_signature) ==
  IF ~InDictionary(dictionary, string)
  THEN Outcome(TRUE, <<>>, signature, "ValueError", <<>>, <<>>, <<>>)
  ELSE LET b == build_input(dictionary, string)
       IN  IF Len(secretkey) = 0
           THEN Outcome(TRUE, b, signature, "ZeroDivisionError", <<>>, <<>>, <<>>)
           ELSE LET t == translate(b, secretkey, Len(dictionary), mode)
                    sg == IF create_signature THEN sign(string) ELSE signature
                IN  IF ~OutputOk(dictionary, t)
                    THEN Outcome(TRUE, t, sg, "IndexError", <<>>, <<>>, <<>>)
                    ELSE Outcome(TRUE, t, sg, "none", output(dictionary, t), <<>>, <<>>)

\* encode (decode is encode with mode = 0)
encode(string, mode, create_signature) ==
  IF ~InDictionary(dictionary, string)
  THEN Outcome(hasText, text, signature, "ValueError", <<>>, <<>>, <<>>)
  ELSE LET b == build_input(dictionary, string)
       IN  IF Len(secretkey) = 0
           THEN Outcome(TRUE, b, signature, "ZeroDivisionError", <<>>, <<>>, <<>>)
           ELSE LET t == translate(b, secretkey, Len(dictionary), mode)
                    sg == IF create_signature THEN sign(string) ELSE signature
                IN  IF ~OutputOk(dictionary, t)
                    THEN Outcome(TRUE, t, sg, "IndexError", <<>>, <<>>, <<>>)
                    ELSE Outcome(TRUE, t, sg, "none", output(dictionary, t), <<>>, <<>>)

decode(string) == encode(string, FALSE, FALSE)

\* wencode: the set of outcomes, one per result of the random draws
wencode(string, lenght, create_signature) ==
  IF ~(lenght > Len(string) + 2)
  THEN {Outcome(hasText, text, signature, "AssertionError", <<>>, <<>>, <<>>)}
  ELSE IF ~InDictionary(dictionary, string)
  THEN {Outcome(hasText, text, signature, "ValueError", <<>>, <<>>, <<>>)}
  ELSE LET b == build_input(dictionary, string)
       IN  IF Len(b) = 0
           THEN {Outcome(TRUE, b, signature, "IndexError", <<>>, b, <<>>)}
           ELSE {IF Len(secretkey) = 0
                 THEN Outcome(TRUE, w, signature, "ZeroDivisionError", <<>>, b, w)
                 ELSE LET t == translate(w, secretkey, Len(dictionary), TRUE)
                          sg == IF create_signature THEN sign(string) ELSE signature
                      IN  IF ~OutputOk(dictionary, t)
                          THEN Outcome(TRUE, t, sg, "IndexError", <<>>, b, w)
                          ELSE Outcome(TRUE, t, sg, "none", output(dictionary, t), b, w) :
                 w \in wide(b, lenght, Len(dictionary))}

wdecode(string) ==
  IF ~InDictionary(dictionary, string)
  THEN Outcome(hasText, text, signature, "ValueError", <<>>, <<>>, <<>>)
  ELSE LET b == build_input(dictionary, string)
       IN  IF Len(secretkey) = 0
           THEN Outcome(TRUE, b, signature, "ZeroDivisionError", <<>>, <<>>, <<>>)
           ELSE LET t == translate(b, secretkey, Len(dictionary), FALSE)
                    u == unwide(t)
                IN  IF ~OutputOk(dictionary, u)
                    THEN Outcome(TRUE, u, signature, "IndexError", <<>>, t, unwide_pass(t).t)
                    ELSE Outcome(TRUE, u, signature, "none", output(dictionary, u),
                                 t, unwide_pass(t).t)

\* verify: [exc, ret]
verify(sg) ==
  IF ~hasText THEN [exc |-> "AttributeError", ret |-> FALSE]
  ELSE IF ~OutputOk(dictionary, text) THEN [exc |-> "IndexError", ret |-> FALSE]
  ELSE [exc |-> "none", ret |-> (sg = sign(output(dictionary, text)))]

\* ------------------------------------------------------------ the machine
NoCall ==
  [op |-> "none", text |-> <<>>, lenght |-> 0, mode |-> FALSE,
   create_signature |-> FALSE, exc |-> "none", ret |-> <<>>,
   inbuf |-> <<>>, midbuf |-> <<>>, signature |-> None]

NoVerify == [called |-> FALSE, signature |-> None, exc |-> "none", ret |-> FALSE]

\* __init__ with an alphabet name and a key over that alphabet
Init ==
  /\ dictionary = DIZ.num
  /\ \E k \in Keys : secretkey = build_input(DIZ.num, k)
  /\ hasText = FALSE
  /\ text = <<>>
  /\ signature = None
  /\ last = NoCall
  /\ src = NoCall
  /\ vres = NoVerify
  /\ ncalls = 0

\* the instance after a call with outcome o, and the record of the call
Call(op, string, lenght, mode, create_signature, o) ==
  /\ ncalls' = ncalls + 1
  /\ hasText' = o.hasText
  /\ text' = o.text
  /\ signature' = o.signature
  /\ last' = [op |-> op, text |-> string, lenght |-> lenght, mode |-> mode,
              create_signature |-> create_signature, exc |-> o.exc, ret |-> o.ret,
              inbuf |-> o.inbuf, midbuf |-> o.midbuf, signature |-> o.signature]
  /\ src' = IF last.op \in {"encode", "wencode"} /\ last.exc = "none"
                 /\ last.ret = string
            THEN last ELSE NoCall
  /\ vres' = NoVerify
  /\ UNCHANGED <<dictionary, secretkey>>

\* what the caller may pass to a decoding call: a text of its own or the
\* ciphertext the previous call, an encoding one, returned
Received ==
  Texts \cup (IF last.op \in {"encode", "wencode"} /\ last.exc = "none"
             THEN {last.ret} ELSE {})

Encode ==
  /\ ncalls < MaxCalls /\ ~vres.called
  /\ \E string \in Texts, mode \in BOOLEAN, create_signature \in BOOLEAN :
    Call("encode", string, 0, mode, create_signature,
         encode(string, mode, create_signature))

Decode ==
  /\ ncalls < MaxCalls /\ ~vres.called
  /\ \E string \in Received :
    Call("decode", string, 0, FALSE, FALSE, decode(string))

WEncode ==
  /\ ncalls < MaxCalls /\ ~vres.called
  /\ \E string \in Texts, create_signature \in BOOLEAN :
    \E lenght \in (Len(string) + 2)..MaxLen :
    \E o \in wencode(string, lenght, create_signature) :
      Call("wencode", string, lenght, TRUE, create_signature, o)

WDecode ==
  /\ ncalls < MaxCalls /\ ~vres.called
  /\ \E string \in Received :
    Call("wdecode", string, 0, FALSE, FALSE, wdecode(string))

\* the signatures a caller may present: the current one, none, digests of
\* other strings
Presented == {None, signature, sign(<<"5">>)}

Verify ==
  /\ \E sg \in Presented :
       vres' = [called |-> TRUE, signature |-> sg,
                exc |-> verify(sg).exc, ret |-> verify(sg).ret]
  /\ UNCHANGED <<dictionary, secretkey, hasText, text, signature, last, src, ncalls>>

Next == Encode \/ Decode \/ WEncode \/ WDecode \/ Verify

Spec == Init /\ [][Next]_vars

\* ================================================================ claims
Valid(string) == InDictionary(dictionary, string)
D == Len(dictionary)
Returned(c) == c.op # "none" /\ c.exc = "none"
PairAt(s, x) == x \in 1..(Len(s) - 1) /\ s[x] = s[x + 1]
NoPair(s) == \A x \in 1..(Len(s) - 1) : s[x] # s[x + 1]

\* C1: a wencode call with a text over the alphabet and lenght > len(text)+2
\* returns, and wdecode of the string it returned returns exactly that text
\* (stated for the non-empty keys; C2 covers the empty one).
C1_PaddedRoundTrip ==
  /\ (last.op = "wencode" /\ Valid(last.text) /\ last.lenght > Len(last.text) + 2
        /\ Len(secretkey) > 0)
       => last.exc = "none"
  /\ (last.op = "wdecode" /\ src.op = "wencode")
       => (last.exc = "none" /\ last.ret = src.text)

\* C2: encode of a text over the alphabet returns, and decode of the string
\* it returned returns exactly that text, whatever the key.
C2_RoundTrip ==
  /\ (last.op = "encode" /\ last.mode /\ Valid(last.text)) => last.exc = "none"
  /\ (last.op = "decode" /\ src.op = "encode" /\ src.mode)
       => (last.exc = "none" /\ last.ret = src.text)

\* C3: wencode of a text over the alphabet with lenght > len(text)+2 returns
\* a string of exactly lenght characters (stated for the non-empty keys).
C3_ExactLength ==
  (last.op = "wencode" /\ Valid(last.text) /\ last.lenght > Len(last.text) + 2
     /\ Len(secretkey) > 0)
    => (last.exc = "none" /\ Len(last.ret) = last.lenght)

\* the strings wencode can return on this instance: those whose
\* reverse-translated buffer _wide(1) can build from one of its own slices
Producible(string) ==
  /\ Valid(string)
  /\ Len(secretkey) > 0
  /\ LET w == translate(build_input(dictionary, string), secretkey, D, FALSE)
     IN  \E i, j \in 1..Len(w) :
           /\ i <= j
           /\ Len(w) > (j - i + 1) + 2
           /\ w \in wide(SubSeq(w, i, j), Len(w), D)

C5_VerifyAfterDecode ==
  (/\ last.op \in {"decode", "wdecode"}
   /\ src.op = (IF last.op = "decode" THEN "encode" ELSE "wencode")
   /\ src.mode /\ src.create_signature)
    => /\ \A t \in Texts : verify(sign(t)).exc = "none"
                             /\ verify(sign(t)).ret = (sign(t) = src.signature)
       /\ verify(None).ret = FALSE
       /\ vres.called => (vres.exc = "none"
                            /\ vres.ret = (vres.signature = src.signature))

C5_Witness ==
  /\ last.op = "wdecode" /\ src.op = "wencode" /\ src.create_signature
  /\ Len(src.text) = 2
  /\ vres.called /\ vres.signature = src.signature /\ vres.ret

\* encode(T) on an instance built with the key string k
EncodeUnder(k, string) ==
  output(dictionary, translate(build_input(dictionary, string),
                               build_input(dictionary, k), D, TRUE))

OtherKeys == (Keys \cup StrsUpTo(KeyChars, MaxKey + 1)) \ {<<>>}

C8_TranslateReference ==
  /\ (last.op \in {"encode", "decode"} /\ Valid(last.text) /\ Len(secretkey) >= 1)
       => LET T == build_input(dictionary, last.text)
              k == Len(secretkey)
          IN  /\ last.exc = "none"
              /\ Len(text) = Len(T)
              /\ \A i \in 1..Len(T) :
                   /\ text[i] \in 0..(D - 1)
                   /\ text[i] = (IF last.mode
                                 THEN (T[i] + secretkey[((i - 1) % k) + 1]) % D
                                 ELSE (T[i] - secretkey[((i - 1) % k) + 1]) % D)
  /\ (last.op = "encode" /\ last.mode /\ last.text = ExampleText
        /\ secretkey = <<1, 3, 7>>)
       => last.ret = <<"6", "1", "9">>

C8_Witness ==
  /\ last.op = "encode" /\ last.mode /\ last.text = ExampleText
  /\ secretkey = <<1, 3, 7>>
  /\ last.ret = <<"6", "1", "9">>

\* C9: the buffer _wide(1) leaves for a non-empty payload t is
\* E ++ [t0, t0, t1, ..., t(n-1), t(n-1)] ++ F with no equal neighbours in E
\* or in F, last(E) # t0 and first(F) # t(n-1); so its first equal pair is
\* the leading marker and, once the buffer is cut there and reversed, the
\* first equal pair is the trailing marker.
WideForm(w, t, a) ==
  LET n == Len(t)
      m == <<t[1]>> \o t \o <<t[n]>>
      E == SubSeq(w, 1, a)
      F == SubSeq(w, a + n + 3, Len(w))
      cut == Reverse(SubSeq(w, a + 2, Len(w)))
  IN  /\ SubSeq(w, a + 1, a + n + 2) = m
      /\ NoPair(E) /\ NoPair(F)
      /\ (a > 0 => E[a] # t[1])
      /\ (Len(F) > 0 => F[1] # t[n])
      /\ PairAt(w, a + 1) /\ \A x \in 1..a : ~PairAt(w, x)
      /\ PairAt(cut, Len(F) + 1) /\ \A x \in 1..Len(F) : ~PairAt(cut, x)

C9_BoundaryMarkers ==
  (last.op = "wencode" /\ Len(last.midbuf) > 0)
    => \E a \in 0..(Len(last.midbuf) - Len(last.inbuf) - 2) :
         WideForm(last.midbuf, last.inbuf, a)

C9_Witness ==
  /\ last.op = "wencode" /\ last.exc = "none"
  /\ \E a \in 1..(Len(last.midbuf) - Len(last.inbuf) - 3) :
       WideForm(last.midbuf, last.inbuf, a)

\* C10 as stated: a pass that finds the first x with buffer[x] = buffer[x+1]
\* keeps buffer[x+2..] and reverses it; when a pass finds none the result is
\* the empty buffer.
PassKeeping(t, from) ==
  IF NoPair(t) THEN <<>>
  ELSE LET x == CHOOSE y \in 1..(Len(t) - 1) :
                  PairAt(t, y) /\ \A z \in 1..(y - 1) : ~PairAt(t, z)
       IN  Reverse(SubSeq(t, x + from, Len(t)))

C10_UnwidePassAsStated ==
  (last.op = "wdecode" /\ last.exc = "none")
    => /\ last.midbuf = PassKeeping(last.inbuf, 2)
       /\ text = PassKeeping(last.midbuf, 2)

\* C10 amended: the pass discards positions 0..x only, keeping buffer[x+1..]
\* (the pair's second element first), and reverses it; when a pass finds no
\* pair the result is the empty buffer.
C10_UnwidePass ==
  (last.op = "wdecode" /\ last.exc = "none")
    => /\ last.midbuf = PassKeeping(last.inbuf, 1)
       /\ text = PassKeeping(last.midbuf, 1)

C10_Witness ==
  /\ last.op = "wdecode" /\ last.exc = "none"
  /\ ~PairAt(last.inbuf, 1)
  /\ Len(last.midbuf) > 0 /\ ~PairAt(last.midbuf, 1)
  /\ Len(text) > 0

====
